---- MODULE Spec2Model ----
(***************************************************************************)
(* The line-oriented JSON-RPC server of src/mcp_server.py: the read /      *)
(* decode / dispatch / write loop of main(), MCPServer.handle_message and  *)
(* its five handlers, and the tool and resource registries.                *)
(*                                                                         *)
(* Python and JSON values are tagged records: [null |-> TRUE],             *)
(* [bool |-> b], [num |-> n], [str |-> s], [list |-> seq], [obj |-> f]     *)
(* with f a function from keys to values (a dict / a JSON object).         *)
(***************************************************************************)
EXTENDS Integers, Sequences, FiniteSets, TLC

\* ---------------------------------------------------------------- bounds
MaxLines == 2      \* lines read from the input stream in one run
MaxTime == 1       \* the clock readings datetime.now() may return: 0..MaxTime

\* --------------------------------------------------------- error codes
PARSE_ERROR == -32700
METHOD_NOT_FOUND == -32601
INVALID_PARAMS == -32602
INTERNAL_ERROR == -32603

\* ------------------------------------------- eval() on arithmetic text
\* Python's eval restricted to the texts the character check of
\* handle_tools_call lets through: tokens are numbers, + - * / ** // ( ) . ...
\* A str is the sequence of its characters.  Values are exact rationals n/d
\* tagged with their Python type.

Digits == {"0", "1", "2", "3", "4", "5", "6", "7", "8", "9"}

DigitVal(c) ==
    CASE c = "0" -> 0 [] c = "1" -> 1 [] c = "2" -> 2 [] c = "3" -> 3 [] c = "4" -> 4
      [] c = "5" -> 5 [] c = "6" -> 6 [] c = "7" -> 7 [] c = "8" -> 8 [] c = "9" -> 9

OperatorChars == {"+", "-", "*", "/", "(", ")", "."}

RECURSIVE ScanDigits(_, _)
ScanDigits(s, i) ==
    IF i <= Len(s) /\ s[i] \in Digits THEN ScanDigits(s, i + 1) ELSE i

RECURSIVE DigitsValue(_, _, _)
DigitsValue(s, i, j) ==
    IF j < i THEN 0 ELSE DigitsValue(s, i, j - 1) * 10 + DigitVal(s[j])

RECURSIVE Pow10(_)
Pow10(k) == IF k = 0 THEN 1 ELSE 10 * Pow10(k - 1)

NumberToken(s, i) ==
    LET a == ScanDigits(s, i)
        isFloat == a <= Len(s) /\ s[a] = "."
        b == IF isFloat THEN ScanDigits(s, a + 1) ELSE a
        whole == DigitsValue(s, i, a - 1)
    IN  IF isFloat
        THEN [k |-> "num", ty |-> "float",
              n |-> whole * Pow10(b - a - 1) + DigitsValue(s, a + 1, b - 1),
              d |-> Pow10(b - a - 1), end |-> b]
        ELSE IF a - i > 1 /\ s[i] = "0" /\ whole # 0
        THEN [k |-> "bad", end |-> a]
        ELSE [k |-> "num", ty |-> "int", n |-> whole, d |-> 1, end |-> a]

\* the token that starts at s[i] (blank for a space), and where it ends
TokenAt(s, i) ==
    IF s[i] = " " THEN [k |-> "blank", end |-> i + 1]
    ELSE IF s[i] \in Digits \/ (s[i] = "." /\ i < Len(s) /\ s[i + 1] \in Digits)
    THEN NumberToken(s, i)
    ELSE IF i < Len(s) /\ s[i] = "*" /\ s[i + 1] = "*" THEN [k |-> "**", end |-> i + 2]
    ELSE IF i < Len(s) /\ s[i] = "/" /\ s[i + 1] = "/" THEN [k |-> "//", end |-> i + 2]
    ELSE IF i + 1 < Len(s) /\ s[i] = "." /\ s[i + 1] = "." /\ s[i + 2] = "."
    THEN [k |-> "...", end |-> i + 3]
    ELSE IF s[i] \in OperatorChars THEN [k |-> s[i], end |-> i + 1]
    ELSE [k |-> "other", end |-> i + 1]

RECURSIVE Tokenize(_, _)
Tokenize(s, i) ==
    IF i > Len(s) THEN << >>
    ELSE LET t == TokenAt(s, i) IN
         (IF t.k = "blank" THEN << >> ELSE <<t>>) \o Tokenize(s, t.end)

Kind(toks, p) == IF p <= Len(toks) THEN toks[p].k ELSE "end"

Raised(kind) == [ty |-> "raise", exc |-> kind]
IsRaise(v) == v.ty = "raise"
Number(ty, n, d) == IF d < 0 THEN [ty |-> ty, n |-> -n, d |-> -d] ELSE [ty |-> ty, n |-> n, d |-> d]
EmptyTuple == [ty |-> "tuple"]
Ellipsis == [ty |-> "ellipsis"]
Wider(a, b) ==
    IF "complex" \in {a.ty, b.ty} THEN "complex"
    ELSE IF "float" \in {a.ty, b.ty} THEN "float" ELSE "int"
Floated(ty) == IF ty = "int" THEN "float" ELSE ty

RECURSIVE IntPow(_, _)
IntPow(b, e) == IF e = 0 THEN 1 ELSE b * IntPow(b, e - 1)

Negate(a) ==
    IF IsRaise(a) THEN a
    ELSE IF a.ty \in {"tuple", "ellipsis"} THEN Raised("TypeError")
    ELSE Number(a.ty, -a.n, a.d)

Positive(a) ==
    IF IsRaise(a) THEN a
    ELSE IF a.ty \in {"tuple", "ellipsis"} THEN Raised("TypeError")
    ELSE a

Power(a, b) ==
    IF "tuple" \in {a.ty, b.ty} THEN Raised("TypeError")
    ELSE IF b.n % b.d = 0
    THEN LET e == b.n \div b.d IN
         IF e >= 0
         THEN Number(Wider(a, b), IntPow(a.n, e), IntPow(a.d, e))
         ELSE IF a.n = 0 THEN Raised("ZeroDivisionError")
         ELSE Number(Floated(Wider(a, b)),
                     IntPow(a.d, -e), IntPow(a.n, -e))
    ELSE IF a.n = 0
    THEN IF b.n > 0 THEN Number(Floated(Wider(a, b)), 0, 1)
         ELSE Raised("ZeroDivisionError")
    ELSE IF a.n < 0 \/ "complex" \in {a.ty, b.ty} THEN Number("complex", 1, 1)
    ELSE Number("float", 1, 1)

BinOp(op, a, b) ==
    IF IsRaise(a) THEN a
    ELSE IF IsRaise(b) THEN b
    ELSE IF "ellipsis" \in {a.ty, b.ty} THEN Raised("TypeError")
    ELSE IF op = "**" THEN Power(a, b)
    ELSE IF a.ty = "tuple" /\ b.ty = "tuple"
    THEN IF op = "+" THEN EmptyTuple ELSE Raised("TypeError")
    ELSE IF "tuple" \in {a.ty, b.ty}
    THEN IF op = "*" /\ "int" \in {a.ty, b.ty} THEN EmptyTuple ELSE Raised("TypeError")
    ELSE IF op = "+" THEN Number(Wider(a, b), a.n * b.d + b.n * a.d, a.d * b.d)
    ELSE IF op = "-" THEN Number(Wider(a, b), a.n * b.d - b.n * a.d, a.d * b.d)
    ELSE IF op = "*" THEN Number(Wider(a, b), a.n * b.n, a.d * b.d)
    ELSE IF op = "/"
    THEN IF b.n = 0 THEN Raised("ZeroDivisionError")
         ELSE Number(Floated(Wider(a, b)), a.n * b.d, a.d * b.n)
    ELSE \* op = "//"
         IF "complex" \in {a.ty, b.ty} THEN Raised("TypeError")
         ELSE IF b.n = 0 THEN Raised("ZeroDivisionError")
         ELSE LET q == Number("int", a.n * b.d, a.d * b.n)
              IN  Number(Wider(a, b), q.n \div q.d, 1)

\* the outcome of calling callee with the argument arg: nothing here is callable
Called(callee, arg) ==
    IF IsRaise(callee) THEN callee
    ELSE IF IsRaise(arg) THEN arg
    ELSE Raised("TypeError")

\* Python's expression grammar over these tokens, parsed with two stacks:
\*   arith  := term (('+' | '-') term)*
\*   term   := factor (('*' | '/' | '//') factor)*
\*   factor := ('+' | '-') factor | power
\*   power  := primary ['**' factor]
\*   primary := atom ('(' [['*' | '**'] arith] ')')*
\*   atom   := NUMBER | '...' | '(' ')' | '(' arith ')'
\* vals holds the values of the operands parsed, ops the operators and open
\* brackets waiting for their right operand; expect says whether an operand
\* or an operator comes next.
Binding(k) ==
    CASE k \in {"(", "call"} -> 0
      [] k \in {"+", "-"} -> 1
      [] k \in {"*", "/", "//"} -> 2
      [] k \in {"u+", "u-"} -> 3
      [] k = "**" -> 4

Front(seq) == SubSeq(seq, 1, Len(seq) - 1)
Last(seq) == seq[Len(seq)]

\* apply the operator on top of ops to the values on top of vals
Apply(st) ==
    LET op == Last(st.ops)
        b == Last(st.vals)
    IN  IF op = "u-" THEN [st EXCEPT !.ops = Front(@), !.vals = Append(Front(@), Negate(b))]
        ELSE IF op = "u+"
        THEN [st EXCEPT !.ops = Front(@), !.vals = Append(Front(@), Positive(b))]
        ELSE [st EXCEPT !.ops = Front(@),
                        !.vals = Append(Front(Front(@)),
                                        BinOp(op, Last(Front(st.vals)), b))]

\* apply the waiting operators that bind at least as tightly as least
RECURSIVE Reduce(_, _)
Reduce(st, least) ==
    IF st.ops # << >> /\ Binding(Last(st.ops)) > 0 /\ Binding(Last(st.ops)) >= least
    THEN Reduce(Apply(st), least)
    ELSE st

Failed(st) == [st EXCEPT !.ok = FALSE, !.done = TRUE]

\* at the end of the tokens, r being st with its waiting operators applied
AtEnd(st, r) == IF r.ops = << >> THEN [r EXCEPT !.done = TRUE] ELSE Failed(st)

\* at a closing bracket, r being st with its waiting operators applied: the
\* bracket closes a parenthesis or the argument of a call
AtClose(st, r, next) ==
    IF r.ops = << >> THEN Failed(st)
    ELSE IF Last(r.ops) = "(" THEN [r EXCEPT !.pos = next, !.ops = Front(@)]
    ELSE [r EXCEPT !.pos = next, !.ops = Front(@),
                   !.vals = Append(Front(Front(@)),
                                   Called(Last(Front(r.vals)), Last(r.vals)))]

Step(toks, st) ==
    LET k == Kind(toks, st.pos)
        next == st.pos + 1
    IN  IF st.expect = "operand"
        THEN IF k = "num"
             THEN [st EXCEPT !.pos = next, !.expect = "operator",
                             !.vals = Append(@, Number(toks[st.pos].ty, toks[st.pos].n,
                                                       toks[st.pos].d))]
             ELSE IF k = "..."
             THEN [st EXCEPT !.pos = next, !.expect = "operator", !.vals = Append(@, Ellipsis)]
             ELSE IF k = "(" /\ Kind(toks, next) = ")"
             THEN [st EXCEPT !.pos = next + 1, !.expect = "operator",
                             !.vals = Append(@, EmptyTuple)]
             ELSE IF k = "(" THEN [st EXCEPT !.pos = next, !.ops = Append(@, "(")]
             ELSE IF k = "+" THEN [st EXCEPT !.pos = next, !.ops = Append(@, "u+")]
             ELSE IF k = "-" THEN [st EXCEPT !.pos = next, !.ops = Append(@, "u-")]
             ELSE Failed(st)
        ELSE IF k = "end"
             THEN AtEnd(st, Reduce(st, 1))
             ELSE IF k = "**" THEN [st EXCEPT !.pos = next, !.expect = "operand",
                                              !.ops = Append(@, "**")]
             ELSE IF k \in {"+", "-", "*", "/", "//"}
             THEN [Reduce(st, Binding(k)) EXCEPT !.pos = next, !.expect = "operand",
                                                 !.ops = Append(@, k)]
             ELSE IF k = "(" /\ Kind(toks, next) = ")"
             THEN [st EXCEPT !.pos = next + 1,
                             !.vals = Append(Front(@), Called(Last(st.vals), EmptyTuple))]
             ELSE IF k = "("
             THEN [st EXCEPT !.pos = IF Kind(toks, next) \in {"*", "**"} THEN next + 1
                                     ELSE next,
                             !.expect = "operand", !.ops = Append(@, "call")]
             ELSE IF k = ")"
             THEN AtClose(st, Reduce(st, 1), next)
             ELSE Failed(st)

RECURSIVE Run(_, _)
Run(toks, st) == IF st.done THEN st ELSE Run(toks, Step(toks, st))

\* the value of a finished parse, or SyntaxError
Outcome(st) == IF st.ok THEN Last(st.vals) ELSE Raised("SyntaxError")

\* the parse of the whole token sequence and the value it evaluates to
ParseArith(toks) ==
    Outcome(Run(toks, [pos |-> 1, expect |-> "operand", vals |-> << >>, ops |-> << >>,
                       ok |-> TRUE, done |-> FALSE]))

\* text with a character outside the arithmetic tokens is general Python
EvalTokens(toks) ==
    IF \E i \in 1..Len(toks) : toks[i].k = "other" THEN [ty |-> "unrestricted"]
    ELSE ParseArith(toks)

\* eval(expression): the value, or the exception raised
eval(expression) == EvalTokens(Tokenize(expression, 1))

\* ------------------------------------------------- Python / JSON values
JNull == [null |-> TRUE]
JBool(b) == [bool |-> b]
JNum(n) == [num |-> n]
JStr(s) == [str |-> s]
JList(seq) == [list |-> seq]
JObj(f) == [obj |-> f]
EmptyDict == [k \in {} |-> JNull]

IsDict(v) == "obj" \in DOMAIN v
IsStr(v) == "str" \in DOMAIN v

\* dict.get(key, default); Python's None is JSON null
Get(d, key, default) == IF key \in DOMAIN d.obj THEN d.obj[key] ELSE default

\* type(v).__name__
PyTypeName(v) ==
    IF "null" \in DOMAIN v THEN "NoneType"
    ELSE IF "bool" \in DOMAIN v THEN "bool"
    ELSE IF "num" \in DOMAIN v THEN "int"
    ELSE IF "str" \in DOMAIN v THEN "str"
    ELSE IF "list" \in DOMAIN v THEN "list"
    ELSE "dict"

\* str(v) as an f-string renders it; containers are rendered for the empty
\* container only, the one container the inputs put in such a place
PyStr(v) ==
    IF "null" \in DOMAIN v THEN "None"
    ELSE IF "bool" \in DOMAIN v THEN (IF v.bool THEN "True" ELSE "False")
    ELSE IF "num" \in DOMAIN v THEN ToString(v.num)
    ELSE IF "str" \in DOMAIN v THEN v.str
    ELSE IF "list" \in DOMAIN v THEN "[]"
    ELSE "{}"

\* a call either returns a value or raises
Return(v) == [ret |-> v]
Raise(kind, text) == [exc |-> kind, text |-> text]
Raises(r) == "exc" \in DOMAIN r

\* v.get on a value that is no dict
NoGet(v) == Raise("AttributeError", "'" \o PyTypeName(v) \o "' object has no attribute 'get'")

\* the characters a Python str iterates over, for the expression texts of
\* the inputs
Characters(s) ==
    CASE s = "" -> << >>
      [] s = "2 + 3 * 4" -> <<"2", " ", "+", " ", "3", " ", "*", " ", "4">>
      [] s = "(1+2)*3" -> <<"(", "1", "+", "2", ")", "*", "3">>
      [] s = "1.5*2" -> <<"1", ".", "5", "*", "2">>
      [] s = "1/0" -> <<"1", "/", "0">>
      [] s = "()" -> <<"(", ")">>
      [] s = "2**3" -> <<"2", "*", "*", "3">>
      [] s = "7//2" -> <<"7", "/", "/", "2">>
      [] s = "1(2)" -> <<"1", "(", "2", ")">>
      [] s = "2 +" -> <<"2", " ", "+">>
      [] s = "__import__('os')" ->
           <<"_", "_", "i", "m", "p", "o", "r", "t", "_", "_", "(", "'", "o", "s", "'", ")">>
      [] s = "2^3" -> <<"2", "^", "3">>
      [] s = "1" -> <<"1">>

\* str(e) of the exceptions eval raises here (the wording is CPython's)
ExcText(kind) ==
    CASE kind = "SyntaxError" -> "invalid syntax (<string>, line 1)"
      [] kind = "ZeroDivisionError" -> "division by zero"
      [] kind = "TypeError" -> "unsupported operand or object is not callable"

\* str(result) of an evaluated expression; a float keeps its integer part
\* and up to four decimals here
RECURSIVE Decimals(_, _, _)
Decimals(n, d, k) ==
    IF k = 0 \/ n = 0 THEN ""
    ELSE ToString((n * 10) \div d) \o Decimals((n * 10) % d, d, k - 1)

ResultText(v) ==
    IF v.ty = "tuple" THEN "()"
    ELSE IF v.ty = "ellipsis" THEN "Ellipsis"
    ELSE IF v.ty = "int" THEN ToString(v.n)
    ELSE IF v.ty = "complex" THEN "(complex)"
    ELSE IF v.ty = "unrestricted" THEN "(whatever the text computes)"
    ELSE LET a == IF v.n < 0 THEN -v.n ELSE v.n
             frac == Decimals(a % v.d, v.d, 4)
         IN  (IF v.n < 0 THEN "-" ELSE "") \o ToString(a \div v.d) \o "."
             \o (IF frac = "" THEN "0" ELSE frac)

\* ------------------------------------------------ MCPServer.__init__
\* a dict keeps insertion order: a sequence of (key, value) entries
InitialTools ==
    << [key |-> "get_weather",
        value |-> JObj([name |-> JStr("get_weather"),
                        description |-> JStr("Get current weather for a city"),
                        inputSchema |-> JObj([
                            type |-> JStr("object"),
                            properties |-> JObj([city |-> JObj([
                                type |-> JStr("string"),
                                description |-> JStr("City name")])]),
                            required |-> JList(<<JStr("city")>>)])])],
       [key |-> "calculate",
        value |-> JObj([name |-> JStr("calculate"),
                        description |-> JStr("Perform basic arithmetic calculations"),
                        inputSchema |-> JObj([
                            type |-> JStr("object"),
                            properties |-> JObj([expression |-> JObj([
                                type |-> JStr("string"),
                                description |-> JStr("Mathematical expression to evaluate (e.g., '2 + 3 * 4')")])]),
                            required |-> JList(<<JStr("expression")>>)])])] >>

InitialResources ==
    << [key |-> "file://notes.txt",
        value |-> JObj([uri |-> JStr("file://notes.txt"),
                        name |-> JStr("Personal Notes"),
                        description |-> JStr("A simple text file with personal notes"),
                        mimeType |-> JStr("text/plain")])] >>

\* list(d.values())
Values(d) == [i \in 1..Len(d) |-> d[i].value]
Keys(d) == {d[i].key : i \in 1..Len(d)}

\* -------------------------------------------------- response envelopes
\* mutant: the id is left out of the envelope when the request had none
ResultResponse_OmitMissingId(msg_id, result) ==
    IF msg_id = JNull THEN JObj([jsonrpc |-> JStr("2.0"), result |-> result])
    ELSE JObj([jsonrpc |-> JStr("2.0"), id |-> msg_id, result |-> result])

ResultResponse(msg_id, result) ==
    JObj([jsonrpc |-> JStr("2.0"), id |-> msg_id, result |-> result])

\* mutant: the error envelope also carries a null result (both fields of
\* MCPMessage serialized)
ErrorResponse_WithNullResult(msg_id, code, text) ==
    JObj([jsonrpc |-> JStr("2.0"), id |-> msg_id, result |-> JNull,
          error |-> JObj([code |-> JNum(code), message |-> JStr(text)])])

ErrorResponse(msg_id, code, text) ==
    JObj([jsonrpc |-> JStr("2.0"), id |-> msg_id,
          error |-> JObj([code |-> JNum(code), message |-> JStr(text)])])

\* ------------------------------------------------------------ handlers
\* mutant: initialize reads the client's protocol version from its params
handle_initialize_ReadsParams(msg_id, params) ==
    IF ~IsDict(params) THEN NoGet(params)
    ELSE Return(ResultResponse(msg_id, JObj([
             protocolVersion |-> Get(params, "protocolVersion", JStr("2024-11-05")),
             capabilities |-> JObj([tools |-> JObj(EmptyDict), resources |-> JObj(EmptyDict)]),
             serverInfo |-> JObj([name |-> JStr("example-mcp-server"),
                                  version |-> JStr("1.0.0")])])))

handle_initialize(msg_id, params) ==
    Return(ResultResponse(msg_id, JObj([
        protocolVersion |-> JStr("2024-11-05"),
        capabilities |-> JObj([tools |-> JObj(EmptyDict), resources |-> JObj(EmptyDict)]),
        serverInfo |-> JObj([name |-> JStr("example-mcp-server"),
                             version |-> JStr("1.0.0")])])))

handle_tools_list(self_tools, msg_id) ==
    Return(ResultResponse(msg_id, JObj([tools |-> JList(Values(self_tools))])))

handle_resources_list(self_resources, msg_id) ==
    Return(ResultResponse(msg_id, JObj([resources |-> JList(Values(self_resources))])))

TextContent(text) == JObj([content |-> JList(<<JObj([type |-> JStr("text"), text |-> JStr(text)])>>)])

get_weather(msg_id, arguments) ==
    IF ~IsDict(arguments) THEN NoGet(arguments)
    ELSE LET city == Get(arguments, "city", JStr("Unknown")) IN
         Return(ResultResponse(msg_id, TextContent(
             "Weather in " \o PyStr(city) \o ": Sunny, 22°C, Humidity: 65%")))

\* mutant: the space is missing from the allowed characters
allowed_chars_NoSpace ==
    {"0", "1", "2", "3", "4", "5", "6", "7", "8", "9", "+", "-", "*", "/", "(", ")", "."}

allowed_chars ==
    {"0", "1", "2", "3", "4", "5", "6", "7", "8", "9", "+", "-", "*", "/", "(", ")", ".", " "}

\* mutant: the character check lets every expression through
AllAllowed_Unchecked(expression) == Return(TRUE)

\* all(c in allowed_chars for c in expression): TRUE, FALSE, or the
\* TypeError of iterating a value that is not iterable
AllAllowed(expression) ==
    IF IsStr(expression)
    THEN Return(\A i \in 1..Len(Characters(expression.str)) :
                    Characters(expression.str)[i] \in allowed_chars)
    ELSE IF "list" \in DOMAIN expression
    THEN Return(\A i \in 1..Len(expression.list) :
                    /\ IsStr(expression.list[i])
                    /\ Len(Characters(expression.list[i].str)) = 1
                    /\ Characters(expression.list[i].str)[1] \in allowed_chars)
    ELSE IF IsDict(expression)
    THEN Return(\A k \in DOMAIN expression.obj :
                    Len(Characters(k)) = 1 /\ Characters(k)[1] \in allowed_chars)
    ELSE Raise("TypeError", "'" \o PyTypeName(expression) \o "' object is not iterable")

\* the values eval() is called with in the try block of the calculate
\* branch: the expression, once the character check has passed
EvalCalls(expression) ==
    IF Raises(AllAllowed(expression)) THEN {}
    ELSE IF ~AllAllowed(expression).ret THEN {}
    ELSE {expression}

\* what eval returned or raised
Evaluated(v) == IF v.ty = "raise" THEN Raise(v.exc, ExcText(v.exc)) ELSE Return(v)

\* the try block of the calculate branch: the value f"{expression} = {result}"
\* is built from, or the exception raised
Evaluate(expression) ==
    LET ok == AllAllowed(expression) IN
    IF Raises(ok) THEN ok
    ELSE IF ~ok.ret THEN Raise("ValueError", "Invalid characters in expression")
    ELSE IF ~IsStr(expression)
    THEN Raise("TypeError", "eval() arg 1 must be a string, bytes or code object")
    ELSE Evaluated(eval(Characters(expression.str)))

\* the two returns of the calculate branch, r being what its try block gave
Calculated(msg_id, expression, r) ==
    IF Raises(r)
    THEN Return(ErrorResponse(msg_id, INVALID_PARAMS, "Calculation error: " \o r.text))
    ELSE Return(ResultResponse(msg_id, TextContent(
             PyStr(expression) \o " = " \o ResultText(r.ret))))

calculate(msg_id, arguments) ==
    IF ~IsDict(arguments) THEN NoGet(arguments)
    ELSE Calculated(msg_id, Get(arguments, "expression", JStr("")),
                    Evaluate(Get(arguments, "expression", JStr(""))))

\* mutant: the dispatch has no branch for calculate
handle_tools_call_NoCalculate(msg_id, params) ==
    IF ~IsDict(params) THEN NoGet(params)
    ELSE LET tool_name == Get(params, "name", JNull)
             arguments == Get(params, "arguments", JObj(EmptyDict))
         IN  IF tool_name = JStr("get_weather") THEN get_weather(msg_id, arguments)
             ELSE Return(ErrorResponse(msg_id, INVALID_PARAMS,
                                       "Unknown tool: " \o PyStr(tool_name)))

handle_tools_call(msg_id, params) ==
    IF ~IsDict(params) THEN NoGet(params)
    ELSE LET tool_name == Get(params, "name", JNull)
             arguments == Get(params, "arguments", JObj(EmptyDict))
         IN  IF tool_name = JStr("get_weather") THEN get_weather(msg_id, arguments)
             ELSE IF tool_name = JStr("calculate") THEN calculate(msg_id, arguments)
             ELSE Return(ErrorResponse(msg_id, INVALID_PARAMS,
                                       "Unknown tool: " \o PyStr(tool_name)))

NotesText(now) ==
    "Personal Notes ... 4. Review quarterly reports  Last updated: " \o ToString(now)

\* mutant: the content is served under another media type than the descriptor's
handle_resources_read_OtherMime(msg_id, params, now) ==
    IF ~IsDict(params) THEN NoGet(params)
    ELSE LET uri == Get(params, "uri", JNull) IN
         IF uri = JStr("file://notes.txt")
         THEN Return(ResultResponse(msg_id, JObj([contents |-> JList(<<
                  JObj([uri |-> uri, mimeType |-> JStr("text/markdown"),
                        text |-> JStr(NotesText(now))])>>)])))
         ELSE Return(ErrorResponse(msg_id, INVALID_PARAMS,
                                   "Resource not found: " \o PyStr(uri)))

handle_resources_read(msg_id, params, now) ==
    IF ~IsDict(params) THEN NoGet(params)
    ELSE LET uri == Get(params, "uri", JNull) IN
         IF uri = JStr("file://notes.txt")
         THEN Return(ResultResponse(msg_id, JObj([contents |-> JList(<<
                  JObj([uri |-> uri, mimeType |-> JStr("text/plain"),
                        text |-> JStr(NotesText(now))])>>)])))
         ELSE Return(ErrorResponse(msg_id, INVALID_PARAMS,
                                   "Resource not found: " \o PyStr(uri)))

\* mutant: an unrecognized method is answered as invalid params
Route_InvalidParams(self_tools, self_resources, message, now) ==
    IF ~IsDict(message) THEN NoGet(message)
    ELSE LET method == Get(message, "method", JNull)
             params == Get(message, "params", JObj(EmptyDict))
             msg_id == Get(message, "id", JNull)
         IN  IF method = JStr("initialize") THEN handle_initialize(msg_id, params)
             ELSE IF method = JStr("tools/list") THEN handle_tools_list(self_tools, msg_id)
             ELSE IF method = JStr("tools/call") THEN handle_tools_call(msg_id, params)
             ELSE IF method = JStr("resources/list")
             THEN handle_resources_list(self_resources, msg_id)
             ELSE IF method = JStr("resources/read")
             THEN handle_resources_read(msg_id, params, now)
             ELSE Return(ErrorResponse(msg_id, INVALID_PARAMS,
                                       "Method not found: " \o PyStr(method)))

\* the try block of handle_message
Route(self_tools, self_resources, message, now) ==
    IF ~IsDict(message) THEN NoGet(message)
    ELSE LET method == Get(message, "method", JNull)
             params == Get(message, "params", JObj(EmptyDict))
             msg_id == Get(message, "id", JNull)
         IN  IF method = JStr("initialize") THEN handle_initialize(msg_id, params)
             ELSE IF method = JStr("tools/list") THEN handle_tools_list(self_tools, msg_id)
             ELSE IF method = JStr("tools/call") THEN handle_tools_call(msg_id, params)
             ELSE IF method = JStr("resources/list")
             THEN handle_resources_list(self_resources, msg_id)
             ELSE IF method = JStr("resources/read")
             THEN handle_resources_read(msg_id, params, now)
             ELSE Return(ErrorResponse(msg_id, METHOD_NOT_FOUND,
                                       "Method not found: " \o PyStr(method)))

\* mutants: the except clause answers without the request's id; the except
\* clause reports a parse error
Caught_NoId(message, r) ==
    IF ~Raises(r) THEN r
    ELSE IF ~IsDict(message) THEN NoGet(message)
    ELSE Return(ErrorResponse(JNull, INTERNAL_ERROR, "Internal error: " \o r.text))

Caught_ParseCode(message, r) ==
    IF ~Raises(r) THEN r
    ELSE IF ~IsDict(message) THEN NoGet(message)
    ELSE Return(ErrorResponse(Get(message, "id", JNull), PARSE_ERROR,
                              "Internal error: " \o r.text))

\* mutant: no except clause, what the try block raises leaves handle_message
Caught_Reraised(message, r) == r

\* the except clause of handle_message, r being what the try block gave: it
\* reads message.get("id") again and so raises in its turn when message is
\* no dict
Caught(message, r) ==
    IF ~Raises(r) THEN r
    ELSE IF ~IsDict(message) THEN NoGet(message)
    ELSE Return(ErrorResponse(Get(message, "id", JNull), INTERNAL_ERROR,
                              "Internal error: " \o r.text))

\* handle_message: the try block and the except clause
handle_message(self_tools, self_resources, message, now) ==
    Caught(message, Route(self_tools, self_resources, message, now))

\* ------------------------------------------------------ the input lines
\* A line is its text between optional surrounding whitespace (pad); the
\* text is blank, or malformed, or brackets opened deeper than the
\* interpreter's recursion limit and never closed, or the JSON text of a value.
Blank == [blank |-> TRUE]
NotJson(s) == [garbage |-> s]
TooDeep == [nested |-> "["]
JsonText(v) == [json |-> v]
Line(text) == [pad |-> FALSE, text |-> text]
Padded(text) == [pad |-> TRUE, text |-> text]

\* line.strip()
strip(l) == l.text

\* json.loads: the value, or JSONDecodeError, or the RecursionError the
\* decoder raises before it has seen the end of too deep a nesting
loads(text) ==
    IF "json" \in DOMAIN text THEN Return(text.json)
    ELSE IF "blank" \in DOMAIN text
    THEN Raise("JSONDecodeError", "Expecting value: line 1 column 1 (char 0)")
    ELSE IF "nested" \in DOMAIN text
    THEN Raise("RecursionError",
               "maximum recursion depth exceeded while decoding a JSON array from a unicode string")
    ELSE Raise("JSONDecodeError", "Expecting property name enclosed in double quotes")

\* json.dumps of a response, and print: one line without padding
dumps(v) == JsonText(v)
print(text) == Line(text)

Request(id, method) == JObj([jsonrpc |-> JStr("2.0"), id |-> id, method |-> method])
RequestP(id, method, params) ==
    JObj([jsonrpc |-> JStr("2.0"), id |-> id, method |-> method, params |-> params])
Notification(method) == JObj([jsonrpc |-> JStr("2.0"), method |-> method])
NotificationP(method, params) ==
    JObj([jsonrpc |-> JStr("2.0"), method |-> method, params |-> params])

Methods == {"initialize", "tools/list", "tools/call", "resources/list", "resources/read"}

CallArgs(name, arguments) == JObj([name |-> JStr(name), arguments |-> arguments])
Calc(e) == CallArgs("calculate", JObj([expression |-> e]))

Expressions ==
    {"2 + 3 * 4", "(1+2)*3", "1.5*2", "1/0", "()", "2**3", "7//2", "1(2)", "", "2 +",
     "__import__('os')", "2^3"}

ToolParams ==
    {JNull, JList(<< >>), JObj(EmptyDict),
     JObj([name |-> JStr("nope")]), JObj([name |-> JNum(5)]),
     JObj([name |-> JStr("get_weather")]),
     CallArgs("get_weather", JObj([city |-> JStr("Paris")])),
     CallArgs("get_weather", JNull),
     JObj([name |-> JStr("calculate")]),
     CallArgs("calculate", JList(<< >>)),
     Calc(JNull), Calc(JList(<<JStr("1")>>))}
    \cup {Calc(JStr(e)) : e \in Expressions}

ReadParams ==
    {JNull, JObj(EmptyDict),
     JObj([uri |-> JStr("file://notes.txt")]),
     JObj([uri |-> JStr("file://other.txt")]),
     JObj([uri |-> JNum(5)])}

Messages ==
    \* values that are no JSON object
    {JNull, JBool(TRUE), JNum(5), JStr("hello"), JList(<< >>)}
    \* the methods without params
    \cup {Request(JStr("a"), JStr(m)) : m \in Methods}
    \cup {Notification(JStr(m)) : m \in Methods}
    \cup {Request(JNum(7), JStr("tools/list")), Request(JNull, JStr("tools/list")),
          RequestP(JNum(7), JStr("initialize"), JNull),
          RequestP(JStr("a"), JStr("initialize"), JList(<< >>)),
          RequestP(JStr("a"), JStr("initialize"),
                   JObj([protocolVersion |-> JStr("2025-03-26")]))}
    \* unrecognized, missing and non-string methods
    \cup {Request(JStr("a"), JStr("bogus")), Notification(JStr("bogus")),
          JObj([id |-> JStr("a")]), JObj(EmptyDict),
          Request(JStr("a"), JNum(42)), Request(JStr("a"), JNull),
          Request(JStr("a"), JStr("None"))}
    \cup {RequestP(JStr("a"), JStr("tools/call"), p) : p \in ToolParams}
    \cup {NotificationP(JStr("tools/call"), p) :
             p \in {JNull, JObj([name |-> JStr("nope")]),
                    CallArgs("get_weather", JObj([city |-> JStr("Paris")])),
                    Calc(JStr("2 + 3 * 4")), Calc(JStr("1/0"))}}
    \cup {RequestP(JStr("a"), JStr("resources/read"), p) : p \in ReadParams}
    \cup {NotificationP(JStr("resources/read"), p) :
             p \in {JObj([uri |-> JStr("file://notes.txt")]),
                    JObj([uri |-> JStr("file://other.txt")])}}

Lines ==
    {Line(Blank), Padded(Blank), Line(NotJson("{bad json")), Line(TooDeep),
     Padded(JsonText(Request(JStr("a"), JStr("tools/list"))))}
    \cup {Line(JsonText(m)) : m \in Messages}

Times == 0..MaxTime

\* ------------------------------------------------------------- state
VARIABLES
    tools,        \* self.tools
    resources,    \* self.resources
    pc,           \* where main() is: Reading, Decoding, Dispatching, Writing, Terminated
    line,         \* main's local line
    message,      \* main's local message
    response,     \* main's local response
    stdout,       \* the lines written to sys.stdout, flushed
    stderr,       \* the lines written to sys.stderr
    stdin,        \* the lines readline() has returned so far
    dispatched,   \* the numbers of the lines handle_message was called for
    exit          \* why the loop ended: none, eof, interrupt, fault

vars == <<tools, resources, pc, line, message, response, stdout, stderr, stdin,
          dispatched, exit>>

Unset == [unset |-> TRUE]

Banner ==
    <<"MCP Server starting...", "Server capabilities:", "- Tools: get_weather, calculate",
      "- Resources: file://notes.txt", "Ready for connections.">>

Init ==
    /\ tools = InitialTools
    /\ resources = InitialResources
    /\ pc = "Reading"
    /\ line = Unset
    /\ message = Unset
    /\ response = Unset
    /\ stdout = << >>
    /\ stderr = Banner
    /\ stdin = << >>
    /\ dispatched = {}
    /\ exit = "none"

\* mutant: the next line is read while the response is still to be written
ReadLine_BeforeWrite ==
    /\ pc \in {"Reading", "Writing"}
    /\ Len(stdin) < MaxLines
    /\ \E l \in Lines :
          /\ line' = l
          /\ stdin' = Append(stdin, l)
    /\ pc' = "Decoding"
    /\ UNCHANGED <<tools, resources, message, response, stdout, stderr, dispatched, exit>>

\* line = sys.stdin.readline() returns a line
ReadLine ==
    /\ pc = "Reading"
    /\ Len(stdin) < MaxLines
    /\ \E l \in Lines :
          /\ line' = l
          /\ stdin' = Append(stdin, l)
    /\ pc' = "Decoding"
    /\ UNCHANGED <<tools, resources, message, response, stdout, stderr, dispatched, exit>>

\* readline() returns "" at end of stream: break
ReadEof ==
    /\ pc = "Reading"
    /\ pc' = "Terminated"
    /\ exit' = "eof"
    /\ UNCHANGED <<tools, resources, line, message, response, stdout, stderr, stdin,
                   dispatched>>

\* message = json.loads(line.strip()) returns
Decode ==
    /\ pc = "Decoding"
    /\ ~Raises(loads(strip(line)))
    /\ message' = loads(strip(line)).ret
    /\ pc' = "Dispatching"
    /\ UNCHANGED <<tools, resources, line, response, stdout, stderr, stdin, dispatched,
                   exit>>

ParseErrorResponse(text) ==
    JObj([jsonrpc |-> JStr("2.0"),
          error |-> JObj([code |-> JNum(PARSE_ERROR),
                          message |-> JStr("Parse error: " \o text)])])

\* json.loads raises JSONDecodeError: the except clause prints the error response
ParseError ==
    /\ pc = "Decoding"
    /\ Raises(loads(strip(line)))
    /\ loads(strip(line)).exc = "JSONDecodeError"
    /\ stdout' = Append(stdout, print(dumps(ParseErrorResponse(loads(strip(line)).text))))
    /\ pc' = "Reading"
    /\ UNCHANGED <<tools, resources, line, message, response, stderr, stdin, dispatched,
                   exit>>

\* json.loads raises another exception: except Exception prints to stderr
\* and breaks
DecodeFault ==
    /\ pc = "Decoding"
    /\ Raises(loads(strip(line)))
    /\ loads(strip(line)).exc # "JSONDecodeError"
    /\ stderr' = Append(stderr, "Unexpected error: " \o loads(strip(line)).text)
    /\ pc' = "Terminated"
    /\ exit' = "fault"
    /\ UNCHANGED <<tools, resources, line, message, response, stdout, stdin, dispatched>>

\* mutant: serving a request drops the last tool from the registry
Dispatch_ForgetsTool ==
    /\ pc = "Dispatching"
    /\ \E now \in Times :
          LET r == handle_message(tools, resources, message, now) IN
          /\ ~Raises(r)
          /\ response' = r.ret
    /\ tools' = Front(tools)
    /\ dispatched' = dispatched \cup {Len(stdin)}
    /\ pc' = "Writing"
    /\ UNCHANGED <<resources, line, message, stdout, stderr, stdin, exit>>

\* mutant: until an initialize has been read, every request is turned down
Dispatch_NeedsInitialize ==
    /\ pc = "Dispatching"
    /\ \E now \in Times :
          LET r == handle_message(tools, resources, message, now) IN
          /\ ~Raises(r)
          /\ response' =
                IF \E j \in 1..Len(stdin) :
                      stdin[j] = Line(JsonText(Request(JStr("a"), JStr("initialize"))))
                THEN r.ret
                ELSE ErrorResponse(Get(message, "id", JNull), INVALID_PARAMS,
                                   "Server not initialized")
    /\ dispatched' = dispatched \cup {Len(stdin)}
    /\ pc' = "Writing"
    /\ UNCHANGED <<tools, resources, line, message, stdout, stderr, stdin, exit>>

\* response = await server.handle_message(message) returns
Dispatch ==
    /\ pc = "Dispatching"
    /\ \E now \in Times :
          LET r == handle_message(tools, resources, message, now) IN
          /\ ~Raises(r)
          /\ response' = r.ret
    /\ dispatched' = dispatched \cup {Len(stdin)}
    /\ pc' = "Writing"
    /\ UNCHANGED <<tools, resources, line, message, stdout, stderr, stdin, exit>>

\* handle_message raises: except Exception prints to stderr and breaks
DispatchFault ==
    /\ pc = "Dispatching"
    /\ \E now \in Times :
          LET r == handle_message(tools, resources, message, now) IN
          /\ Raises(r)
          /\ stderr' = Append(stderr, "Unexpected error: " \o r.text)
    /\ dispatched' = dispatched \cup {Len(stdin)}
    /\ pc' = "Terminated"
    /\ exit' = "fault"
    /\ UNCHANGED <<tools, resources, line, message, response, stdout, stdin>>

\* print(json.dumps(response)); sys.stdout.flush()
Write ==
    /\ pc = "Writing"
    /\ stdout' = Append(stdout, print(dumps(response)))
    /\ pc' = "Reading"
    /\ UNCHANGED <<tools, resources, line, message, response, stderr, stdin, dispatched,
                   exit>>

\* KeyboardInterrupt: break
Interrupt ==
    /\ pc # "Terminated"
    /\ pc' = "Terminated"
    /\ exit' = "interrupt"
    /\ UNCHANGED <<tools, resources, line, message, response, stdout, stderr, stdin,
                   dispatched>>

Next ==
    \/ ReadLine
    \/ ReadEof
    \/ Decode
    \/ ParseError
    \/ DecodeFault
    \/ Dispatch
    \/ DispatchFault
    \/ Write
    \/ Interrupt

Spec == Init /\ [][Next]_vars

\* ------------------------------------------------------------ properties
\* what line k of the input decodes to, and the response line at position k
Decodes(l) == ~Raises(loads(strip(l)))
Msg(k) == LET r == loads(strip(stdin[k])) IN IF Raises(r) THEN Unset ELSE r.ret
IsRequest(k) == Decodes(stdin[k]) /\ IsDict(Msg(k))
Recognized(k) == \E m \in Methods : Get(Msg(k), "method", JNull) = JStr(m)
HasId(k) == "id" \in DOMAIN Msg(k).obj
Params(k) == Get(Msg(k), "params", JObj(EmptyDict))
Answered(k) == k <= Len(stdout)
Reply(k) == stdout[k].text.json.obj
IsError(k) == "error" \in DOMAIN Reply(k)
IsResult(k) == "result" \in DOMAIN Reply(k)
Code(k) == Reply(k).error.obj.code.num
ErrorText(k) == Reply(k).error.obj.message.str
\* the iteration that read line k is over (an interrupt may cut the last one short)
Settled(k) == k < Len(stdin) \/ pc = "Reading" \/ exit \in {"eof", "fault"}
LineNos == 1..Len(stdin)

\* C1: a line that decodes to an object with an id and one of the five
\* methods gets exactly one response line, at its own position, and that
\* response carries the request's id, be it a result or an error.
C1_OneResponseWithRequestId ==
    /\ Len(stdout) <= Len(stdin)
    /\ \A k \in LineNos :
          (IsRequest(k) /\ HasId(k) /\ Recognized(k)) =>
             /\ Settled(k) => Answered(k)
             /\ (k = Len(stdin) /\ Settled(k)) => Len(stdout) = k
             /\ Answered(k) =>
                   /\ "id" \in DOMAIN Reply(k)
                   /\ Reply(k).id = Msg(k).obj.id
                   /\ IsError(k) \/ IsResult(k)

\* an initialize answered by a result, then a tools/call with null params
\* answered by the catch-all, each under its own id
C1_Witness ==
    /\ Len(stdout) = 2
    /\ Msg(1) = RequestP(JNum(7), JStr("initialize"), JNull)
    /\ IsResult(1) /\ Reply(1).id = JNum(7)
    /\ Msg(2) = RequestP(JStr("a"), JStr("tools/call"), JNull)
    /\ IsError(2) /\ Code(2) = INTERNAL_ERROR /\ Reply(2).id = JStr("a")

\* C2: the k-th response line answers the k-th line read: a line that fails
\* to decode gives one parse-error response at its position, every other
\* line one dispatched response; none is dropped.
C2_ResponsesFollowInputOrder ==
    /\ Len(stdout) <= Len(stdin)
    /\ \A k \in LineNos :
          /\ Settled(k) => Answered(k)
          /\ Answered(k) =>
                IF Decodes(stdin[k]) THEN k \in dispatched
                ELSE IsError(k) /\ Code(k) = PARSE_ERROR

\* C3: a line that is not valid JSON (a blank one included) gets exactly one
\* error response with code -32700 and no id field, the dispatcher is never
\* called for it, and the loop is back at reading afterwards.
C3_ParseErrorAnswered ==
    /\ Len(stdout) <= Len(stdin)
    /\ \A k \in LineNos :
          ~Decodes(stdin[k]) =>
             /\ k \notin dispatched
             /\ k = Len(stdin) => pc \notin {"Dispatching", "Writing"}
             /\ Settled(k) => Answered(k)
             /\ Answered(k) =>
                   /\ IsError(k) /\ ~IsResult(k)
                   /\ Code(k) = PARSE_ERROR
                   /\ "id" \notin DOMAIN Reply(k)
             /\ (k = Len(stdin) /\ Answered(k)) =>
                   pc = "Reading" \/ exit \in {"eof", "interrupt"}

\* C4: no line ends the loop or goes without a response: only the end of the
\* stream or an interrupt terminates it.
C4_NoLineEndsTheLoop ==
    /\ exit # "fault"
    /\ \A k \in LineNos : Settled(k) => Answered(k)

\* C5: a decoded request object whose method is none of the five (missing
\* and non-string methods included) is answered, without a fault, by error
\* -32601 whose message names the method and whose id is the request's
\* (null when it has none).
C5_MethodNotFound ==
    \A k \in LineNos :
       (IsRequest(k) /\ ~Recognized(k)) =>
          /\ k = Len(stdin) => exit # "fault"
          /\ Settled(k) => Answered(k)
          /\ Answered(k) =>
                /\ IsError(k) /\ ~IsResult(k)
                /\ Code(k) = METHOD_NOT_FOUND
                /\ ErrorText(k) = "Method not found: " \o PyStr(Get(Msg(k), "method", JNull))
                /\ "id" \in DOMAIN Reply(k)
                /\ Reply(k).id = Get(Msg(k), "id", JNull)

\* a numeric method and a missing method, both answered
C5_Witness ==
    /\ Len(stdout) = 2
    /\ Msg(1) = Request(JStr("a"), JNum(42))
    /\ Code(1) = METHOD_NOT_FOUND /\ ErrorText(1) = "Method not found: 42"
    /\ Msg(2) = JObj([id |-> JStr("a")])
    /\ Code(2) = METHOD_NOT_FOUND /\ ErrorText(2) = "Method not found: None"

\* C6: every response line written, and the response about to be written,
\* has exactly one of the fields result and error.
C6_ResultXorError ==
    /\ \A k \in 1..Len(stdout) : IsResult(k) # IsError(k)
    /\ pc = "Writing" => ("result" \in DOMAIN response.obj) # ("error" \in DOMAIN response.obj)

\* a parse error, then a response of the catch-all about to be written
C6_Witness ==
    /\ Len(stdout) = 1 /\ IsError(1) /\ Code(1) = PARSE_ERROR
    /\ pc = "Writing"
    /\ "error" \in DOMAIN response.obj
    /\ response.obj.error.obj.code.num = INTERNAL_ERROR

\* C7: the code of every error response written is one of -32700, -32601,
\* -32602, -32603; -32700 answers only lines that failed to decode and
\* -32601 only requests with an unrecognized method.
C7_ErrorCodes ==
    \A k \in 1..Len(stdout) :
       IsError(k) =>
          /\ Code(k) \in {PARSE_ERROR, METHOD_NOT_FOUND, INVALID_PARAMS, INTERNAL_ERROR}
          /\ Code(k) = PARSE_ERROR => ~Decodes(stdin[k])
          /\ Code(k) = METHOD_NOT_FOUND => IsRequest(k) /\ ~Recognized(k)

\* an internal error and an invalid-params error written
C7_Witness ==
    /\ Len(stdout) = 2
    /\ IsError(1) /\ Code(1) = INTERNAL_ERROR
    /\ IsError(2) /\ Code(2) = INVALID_PARAMS
    /\ Msg(2) = RequestP(JStr("a"), JStr("resources/read"), JObj([uri |-> JNum(5)]))

ValidExpressions == {"2 + 3 * 4", "(1+2)*3", "1.5*2"}
ValidArguments(name, arguments) ==
    /\ IsDict(arguments)
    /\ name = "get_weather" =>
          "city" \in DOMAIN arguments.obj /\ IsStr(arguments.obj.city)
    /\ name = "calculate" =>
          /\ "expression" \in DOMAIN arguments.obj
          /\ IsStr(arguments.obj.expression)
          /\ arguments.obj.expression.str \in ValidExpressions
IsTextBlocks(v) ==
    /\ "list" \in DOMAIN v
    /\ Len(v.list) > 0
    /\ \A i \in 1..Len(v.list) :
          /\ IsDict(v.list[i])
          /\ Get(v.list[i], "type", JNull) = JStr("text")
          /\ IsStr(Get(v.list[i], "text", JNull))
IsToolCall(k) ==
    /\ IsRequest(k)
    /\ Get(Msg(k), "method", JNull) = JStr("tools/call")
    /\ IsDict(Params(k))
ToolName(k) == Get(Params(k), "name", JNull)
RegisteredTool(k) == IsStr(ToolName(k)) /\ ToolName(k).str \in Keys(tools)

\* C9: a tools/call (params a mapping, or absent) whose name is no key of
\* the tool registry, or is missing, is answered by error -32602 naming the
\* tool; with a registered tool and valid arguments it is answered by a
\* result whose content is a non-empty sequence of text blocks.
C9_ToolsCall ==
    \A k \in LineNos :
       (IsToolCall(k) /\ Answered(k)) =>
          /\ ~RegisteredTool(k) =>
                /\ IsError(k) /\ Code(k) = INVALID_PARAMS
                /\ ErrorText(k) = "Unknown tool: " \o PyStr(ToolName(k))
          /\ (RegisteredTool(k)
                /\ ValidArguments(ToolName(k).str, Get(Params(k), "arguments", JObj(EmptyDict)))) =>
                /\ IsResult(k) /\ ~IsError(k)
                /\ IsDict(Reply(k).result)
                /\ IsTextBlocks(Get(Reply(k).result, "content", JNull))

\* a call without a name, then a calculation
C9_Witness ==
    /\ Len(stdout) = 2
    /\ Msg(1) = RequestP(JStr("a"), JStr("tools/call"), JObj(EmptyDict))
    /\ ErrorText(1) = "Unknown tool: None"
    /\ Msg(2) = RequestP(JStr("a"), JStr("tools/call"), Calc(JStr("2 + 3 * 4")))
    /\ IsResult(2)
    /\ Reply(2).result.obj.content.list[1].obj.text = JStr("2 + 3 * 4 = 14")

IsRead(k) ==
    /\ IsRequest(k)
    /\ Get(Msg(k), "method", JNull) = JStr("resources/read")
    /\ IsDict(Params(k))
Uri(k) == Get(Params(k), "uri", JNull)
RegisteredResource(k) == IsStr(Uri(k)) /\ Uri(k).str \in Keys(resources)
DescriptorOf(uri) == resources[CHOOSE i \in 1..Len(resources) : resources[i].key = uri].value

\* C10: a resources/read (params a mapping, or absent) whose uri is no key
\* of the resource registry, or is missing, is answered by error -32602
\* naming the uri; the notes uri is answered by a result with a contents
\* entry that echoes the uri under text/plain, the mimeType of its descriptor.
C10_ResourcesRead ==
    \A k \in LineNos :
       (IsRead(k) /\ Answered(k)) =>
          /\ ~RegisteredResource(k) =>
                /\ IsError(k) /\ Code(k) = INVALID_PARAMS
                /\ ErrorText(k) = "Resource not found: " \o PyStr(Uri(k))
          /\ Uri(k) = JStr("file://notes.txt") =>
                /\ IsResult(k) /\ ~IsError(k)
                /\ LET contents == Get(Reply(k).result, "contents", JNull) IN
                   /\ "list" \in DOMAIN contents
                   /\ Len(contents.list) = 1
                   /\ contents.list[1].obj.uri = Uri(k)
                   /\ contents.list[1].obj.mimeType = JStr("text/plain")
                   /\ contents.list[1].obj.mimeType
                         = Get(DescriptorOf(Uri(k).str), "mimeType", JNull)
                   /\ IsStr(contents.list[1].obj.text)

\* a read without a uri, then the notes
C10_Witness ==
    /\ Len(stdout) = 2
    /\ Msg(1) = RequestP(JStr("a"), JStr("resources/read"), JObj(EmptyDict))
    /\ ErrorText(1) = "Resource not found: None"
    /\ Msg(2) = RequestP(JStr("a"), JStr("resources/read"),
                         JObj([uri |-> JStr("file://notes.txt")]))
    /\ IsResult(2)

Method(k) == Get(Msg(k), "method", JNull)

\* C11: no request changes the tool or the resource registry: after any
\* requests, failed ones included, tools/list answers with the descriptors
\* the registry was built with, in their order, and so does resources/list.
C11_RegistriesNeverChange ==
    /\ tools = InitialTools
    /\ resources = InitialResources
    /\ \A k \in LineNos :
          (IsRequest(k) /\ Answered(k)) =>
             /\ Method(k) = JStr("tools/list") =>
                   /\ IsResult(k)
                   /\ Reply(k).result = JObj([tools |-> JList(Values(InitialTools))])
             /\ Method(k) = JStr("resources/list") =>
                   /\ IsResult(k)
                   /\ Reply(k).result = JObj([resources |-> JList(Values(InitialResources))])

\* a failed tools/call, then a tools/list that still lists both tools in order
C11_Witness ==
    /\ Len(stdout) = 2
    /\ Msg(1) = RequestP(JStr("a"), JStr("tools/call"), JNull) /\ IsError(1)
    /\ Msg(2) = Request(JStr("a"), JStr("tools/list")) /\ IsResult(2)
    /\ Len(Reply(2).result.obj.tools.list) = 2
    /\ Reply(2).result.obj.tools.list[1].obj.name = JStr("get_weather")
    /\ Reply(2).result.obj.tools.list[2].obj.name = JStr("calculate")

\* the characters an arithmetic expression is written with: digits, the
\* space, parentheses, the decimal point and + - * /
ArithmeticChars == Digits \cup {"+", "-", "*", "/", "(", ")", ".", " "}
HasOtherChars(text) ==
    \E i \in 1..Len(Characters(text)) : Characters(text)[i] \notin ArithmeticChars
IsCalculate(k) ==
    /\ IsToolCall(k)
    /\ ToolName(k) = JStr("calculate")
    /\ IsDict(Get(Params(k), "arguments", JObj(EmptyDict)))
Expression(k) == Get(Get(Params(k), "arguments", JObj(EmptyDict)), "expression", JStr(""))

\* C12: a calculate expression with a character outside the arithmetic
\* ones never reaches eval: the character check comes first, and the request
\* is answered by error -32602 with the calculation-error message of that
\* check, under the request's id.
C12_OtherCharsNeverEvaluated ==
    \A k \in LineNos :
       (IsCalculate(k) /\ IsStr(Expression(k)) /\ HasOtherChars(Expression(k).str)) =>
          /\ EvalCalls(Expression(k)) = {}
          /\ Settled(k) => Answered(k)
          /\ Answered(k) =>
                /\ IsError(k) /\ ~IsResult(k)
                /\ Code(k) = INVALID_PARAMS
                /\ ErrorText(k) = "Calculation error: Invalid characters in expression"
                /\ Reply(k).id = Get(Msg(k), "id", JNull)

\* a call of a builtin and a single foreign character, both rejected
C12_Witness ==
    /\ Len(stdout) = 2
    /\ Msg(1) = RequestP(JStr("a"), JStr("tools/call"), Calc(JStr("__import__('os')")))
    /\ Msg(2) = RequestP(JStr("a"), JStr("tools/call"), Calc(JStr("2^3")))
    /\ Code(1) = INVALID_PARAMS /\ Code(2) = INVALID_PARAMS
    /\ Reply(1).id = JStr("a")

\* the expression texts of the inputs that are written with arithmetic
\* characters only and are no arithmetic expression over numbers, + - * /
\* and parentheses
MalformedExpressions == {"", "()", "2**3", "7//2", "1(2)", "2 +"}

\* C13: a calculate expression of arithmetic characters that is no
\* well-formed arithmetic expression (an empty one, an empty pair of
\* parentheses, a doubled operator, a number applied like a call) is answered
\* by an error, never by a result.
C13_MalformedRejected ==
    \A k \in LineNos :
       (/\ IsCalculate(k) /\ IsStr(Expression(k))
        /\ Expression(k).str \in MalformedExpressions
        /\ Answered(k)) => IsError(k) /\ ~IsResult(k)

\* the fault r of the try block of handle_message for line k, answered as an
\* internal error
AnsweredAsInternalError(k, r) ==
    /\ Raises(r)
    /\ IsError(k) /\ ~IsResult(k)
    /\ Code(k) = INTERNAL_ERROR
    /\ ErrorText(k) = "Internal error: " \o r.text
    /\ Reply(k).id = Get(Msg(k), "id", JNull)
Faults(k) == Raises(Route(tools, resources, Msg(k), 0))

\* C14: a fault raised while a recognized method of a decoded object runs
\* (null params, say) does not leave handle_message: the line is answered by
\* error -32603 with the text of the fault and the request's id, and the loop
\* goes back to reading.
C14_FaultBecomesInternalError ==
    \A k \in LineNos :
       (IsRequest(k) /\ Recognized(k) /\ Faults(k)) =>
          /\ k = Len(stdin) => exit # "fault"
          /\ Settled(k) => Answered(k)
          /\ Answered(k) =>
                AnsweredAsInternalError(k, Route(tools, resources, Msg(k), 0))
          /\ (k = Len(stdin) /\ Answered(k)) => pc = "Reading" \/ exit \in {"eof", "interrupt"}

\* null params answered as an internal error, and the next line served
C14_Witness ==
    /\ Len(stdout) = 2
    /\ Msg(1) = RequestP(JStr("a"), JStr("resources/read"), JNull)
    /\ Code(1) = INTERNAL_ERROR
    /\ ErrorText(1) = "Internal error: 'NoneType' object has no attribute 'get'"
    /\ Reply(1).id = JStr("a")
    /\ Msg(2) = Request(JStr("a"), JStr("resources/list")) /\ IsResult(2)

\* line k is a tools/call or resources/read whose params, or a tools/call
\* whose arguments, fail validation
ParamsInvalid(k) ==
    /\ IsRequest(k)
    /\ Method(k) \in {JStr("tools/call"), JStr("resources/read")}
    /\ \/ "params" \notin DOMAIN Msg(k).obj
       \/ ~IsDict(Params(k))
       \/ /\ Method(k) = JStr("tools/call")
          /\ "arguments" \in DOMAIN Params(k).obj
          /\ ~IsDict(Params(k).obj.arguments)

\* C15: a tools/call or resources/read whose params are missing or are no
\* mapping, and a tools/call whose arguments are no mapping, is answered by
\* error -32602, not -32603.
C15_ValidationIsInvalidParams ==
    \A k \in LineNos :
       (ParamsInvalid(k) /\ Answered(k)) => IsError(k) /\ Code(k) = INVALID_PARAMS

\* C16: one request is in flight at most: while a line is decoded,
\* dispatched (the await of handle_message included) or written, it is the
\* only line without a response, and a line is read only when every line
\* before it has its response on the output stream.
C16_OneRequestInFlight ==
    /\ [](pc \in {"Decoding", "Dispatching", "Writing"} => Len(stdin) = Len(stdout) + 1)
    /\ [][stdin' # stdin => (pc = "Reading" /\ Len(stdout) = Len(stdin))]_vars

\* the second line awaits its dispatch, the first has its response written
C16_Witness ==
    /\ pc = "Dispatching"
    /\ Len(stdin) = 2 /\ Len(stdout) = 1
    /\ Msg(2) = RequestP(JStr("a"), JStr("tools/call"),
                         CallArgs("get_weather", JObj([city |-> JStr("Paris")])))

\* C17: the end of the stream ends the loop cleanly, with nothing written
\* for it, and a loop that has ended (an interrupt aside) has ended that way
\* with a response to every line read before the end.
C17_EndOfStreamAfterAllAnswered ==
    (pc = "Terminated" /\ exit # "interrupt") =>
       /\ exit = "eof"
       /\ stderr = Banner
       /\ Len(stdout) = Len(stdin)

\* C18: initialize always succeeds: whatever its params (absent, null, a
\* mapping, another value), it is answered by a result, never an error, with
\* the same protocolVersion, capabilities {tools, resources} and serverInfo,
\* and the registries are as they were built.
C18_InitializeAlwaysSucceeds ==
    \A k \in LineNos :
       (IsRequest(k) /\ Method(k) = JStr("initialize")) =>
          /\ k = Len(stdin) => exit # "fault"
          /\ Settled(k) => Answered(k)
          /\ tools = InitialTools /\ resources = InitialResources
          /\ Answered(k) =>
                /\ IsResult(k) /\ ~IsError(k)
                /\ Reply(k).result = JObj([
                       protocolVersion |-> JStr("2024-11-05"),
                       capabilities |-> JObj([tools |-> JObj(EmptyDict),
                                              resources |-> JObj(EmptyDict)]),
                       serverInfo |-> JObj([name |-> JStr("example-mcp-server"),
                                            version |-> JStr("1.0.0")])])

\* initialize with null params and with a mapping, both answered by a result
C18_Witness ==
    /\ Len(stdout) = 2
    /\ Msg(1) = RequestP(JNum(7), JStr("initialize"), JNull) /\ IsResult(1)
    /\ Msg(2) = RequestP(JStr("a"), JStr("initialize"),
                         JObj([protocolVersion |-> JStr("2025-03-26")]))
    /\ IsResult(2)
    /\ Reply(1).result = Reply(2).result

\* the names tools/list returns and the uris resources/list returns
ListedTools ==
    {d.obj.name : d \in {Values(tools)[i] : i \in 1..Len(tools)}}
ListedResources ==
    {d.obj.uri : d \in {Values(resources)[i] : i \in 1..Len(resources)}}
\* a response that turns the name, or the uri, down
IsUnknownTool(r, name) ==
    /\ "error" \in DOMAIN r.obj
    /\ r.obj.error.obj.message = JStr("Unknown tool: " \o PyStr(name))
IsResourceNotFound(r, uri) ==
    /\ "error" \in DOMAIN r.obj
    /\ r.obj.error.obj.message = JStr("Resource not found: " \o PyStr(uri))

\* C19: listing and dispatch agree: tools/call turns a name down as an
\* unknown tool exactly when tools/list does not return it, and
\* resources/read turns a uri down as not found exactly when resources/list
\* does not return it.
C19_ListingAndDispatchAgree ==
    /\ \A n \in ListedTools :
          ~IsUnknownTool(handle_tools_call(JNull, JObj([name |-> n])).ret, n)
    /\ \A u \in ListedResources :
          ~IsResourceNotFound(handle_resources_read(JNull, JObj([uri |-> u]), 0).ret, u)
    /\ \A k \in LineNos :
          /\ (IsToolCall(k) /\ Answered(k)) =>
                (IsUnknownTool(stdout[k].text.json, ToolName(k)) <=> ToolName(k) \notin ListedTools)
          /\ (IsRead(k) /\ Answered(k)) =>
                (IsResourceNotFound(stdout[k].text.json, Uri(k))
                    <=> Uri(k) \notin ListedResources)

\* a listed tool called and an unlisted uri read
C19_Witness ==
    /\ Len(stdout) = 2
    /\ Msg(1) = RequestP(JStr("a"), JStr("tools/call"), Calc(JStr("(1+2)*3")))
    /\ IsResult(1)
    /\ Msg(2) = RequestP(JStr("a"), JStr("resources/read"),
                         JObj([uri |-> JStr("file://other.txt")]))
    /\ ErrorText(2) = "Resource not found: file://other.txt"

\* the response lines a server that has read nothing yet writes for line l,
\* one for each reading of the clock
FirstResponses(l) ==
    IF Raises(loads(strip(l)))
    THEN {print(dumps(ParseErrorResponse(loads(strip(l)).text)))}
    ELSE {print(dumps(handle_message(InitialTools, InitialResources,
                                     loads(strip(l)).ret, now).ret)) : now \in Times}

\* C20: no session state: the response to a line (id, result or error, code,
\* payload, the clock reading aside) is the response a server that has read
\* nothing yet gives to that line, whatever lines came before; no method
\* needs an initialize first.
C20_ResponseDependsOnLineOnly ==
    \A k \in 1..Len(stdout) : stdout[k] \in FirstResponses(stdin[k])

\* the same read twice with no initialize before: two results that differ
\* in the clock reading only
C20_Witness ==
    /\ Len(stdout) = 2
    /\ Msg(1) = RequestP(JStr("a"), JStr("resources/read"),
                         JObj([uri |-> JStr("file://notes.txt")]))
    /\ Msg(2) = Msg(1)
    /\ IsResult(1) /\ IsResult(2)
    /\ stdout[1] # stdout[2]
====
